---- MODULE Spec2Model ----
(***************************************************************************)
(* GymToUnityWrapper (mlagents_envs/gym_to_unity_wrapper.py): an adapter   *)
(* presenting one single-agent gym environment through the BaseEnv         *)
(* interface (step / reset / set_actions / set_action_for_agent /          *)
(* get_steps / close).                                                     *)
(*                                                                         *)
(* Numbers.  numpy floats are modelled as exact fractions [n, d] in lowest *)
(* terms with d >= 0; d = 0 encodes the IEEE values +inf (n = 1),          *)
(* -inf (n = -1) and nan (n = 0).  float32 rounding is not modelled.       *)
(* Arrays.  A numpy array is [shape, dtype, data] with data in row-major   *)
(* order, so action[0, 0] is data[1] and action[0] is the first shape[2]   *)
(* entries of data.                                                        *)
(***************************************************************************)
EXTENDS Integers, Sequences, FiniteSets, TLC

\* ------------------------------------------------------------------ bounds
\* how many times close() may be called in one behaviour
MaxClose == 2
\* largest number of rows of a submitted action batch
MaxRows == 2
\* largest number of columns of a submitted action
MaxCols == 2

\* ---------------------------------------------------------------- numbers
Abs(x) == IF x < 0 THEN -x ELSE x

Sign(x) == IF x < 0 THEN -1 ELSE IF x > 0 THEN 1 ELSE 0

RECURSIVE GCD(_, _)
GCD(a, b) == IF b = 0 THEN a ELSE GCD(b, a % b)

\* the fraction n/d in lowest terms (d may be negative or zero)
Rat(n, d) ==
    IF d = 0 THEN [n |-> Sign(n), d |-> 0]
    ELSE LET g == GCD(Abs(n), Abs(d))
         IN  [n |-> Sign(d) * Sign(n) * (Abs(n) \div g), d |-> Abs(d) \div g]

Num(i) == Rat(i, 1)

Inf == [n |-> 1, d |-> 0]

Neg(x) == [n |-> -x.n, d |-> x.d]

\* x > y on floats (false when either side is nan)
Gt(x, y) ==
    /\ ~(x.n = 0 /\ x.d = 0)
    /\ ~(y.n = 0 /\ y.d = 0)
    /\ x.n * y.d > y.n * x.d

\* x / y on floats: k/0 is an infinity, 0/0 is nan
FDiv(x, y) == Rat(x.n * y.d, x.d * y.n)

\* float -> integer conversion of astype(int32) and int(): toward zero
Trunc(x) == Sign(x.n) * (Abs(x.n) \div x.d)

\* ----------------------------------------------------------------- numpy
\* np.maximum(a, b), elementwise
np_maximum(a, b) == [i \in DOMAIN a |-> IF Gt(b[i], a[i]) THEN b[i] ELSE a[i]]

\* -a, elementwise
np_negative(a) == [i \in DOMAIN a |-> Neg(a[i])]

\* a / b, elementwise, for vectors of the same length
np_divide(a, b) == [i \in DOMAIN a |-> FDiv(a[i], b[i])]

RECURSIVE np_prod(_)
np_prod(shape) == IF shape = << >> THEN 1 ELSE Head(shape) * np_prod(Tail(shape))

\* the comparison "x > 1e38": every finite number of the model is far below
\* 1e38, so only +inf exceeds the threshold
GreaterThan1e38(x) == x.d = 0 /\ x.n > 0

\* ratio[ratio > 1e38] = 1
ClampRatio(ratio) ==
    [i \in DOMAIN ratio |-> IF GreaterThan1e38(ratio[i]) THEN Num(1) ELSE ratio[i]]

\* the ratio np.maximum(space.high, -space.low) with unbounded entries set to 1
SpaceRatio(space) == ClampRatio(np_maximum(space.high, np_negative(space.low)))

\* action.astype(expected_type) when action.dtype != expected_type
astype(action, expected_type) ==
    IF action.dtype = expected_type THEN action
    ELSE [shape |-> action.shape,
          dtype |-> expected_type,
          data  |-> IF expected_type = "int32"
                    THEN [i \in DOMAIN action.data |-> Num(Trunc(action.data[i]))]
                    ELSE action.data]

\* action[0] of a 2-d array: its first row
FirstRow(action) == SubSeq(action.data, 1, action.shape[2])

\* ------------------------------------------------------- gym environment
Box(low, high) ==
    [kind |-> "Box", shape |-> <<Len(low)>>, low |-> low, high |-> high, n |-> 0]

Discrete(n) ==
    [kind |-> "Discrete", shape |-> << >>, low |-> << >>, high |-> << >>, n |-> n]

\* a composite space, supported neither for actions nor for observations
TupleSpace ==
    [kind |-> "Tuple", shape |-> << >>, low |-> << >>, high |-> << >>, n |-> 0]

ActionSpaces ==
    { Box(<<Num(-2)>>, <<Num(2)>>),
      Box(<<Num(-1), Neg(Inf)>>, <<Num(3), Inf>>),
      Discrete(4),
      TupleSpace }

ObservationSpaces ==
    { Box(<<Num(-10)>>, <<Num(4)>>),
      Box(<<Neg(Inf)>>, <<Inf>>),
      Box(<<Num(0)>>, <<Num(0)>>),
      Discrete(3) }

\* what the environment may return: raw entries, rewards, info dictionaries
RawEntries == {Num(0), Num(-3)}

Rewards == {Num(1), Rat(-1, 2)}

Infos == { {}, {<<"TimeLimit.truncated", TRUE>>}, {<<"TimeLimit.truncated", FALSE>>} }

\* info.get(key, default)
InfoGet(info, key, default) ==
    IF \E p \in info : p[1] = key
    THEN (CHOOSE p \in info : p[1] = key)[2]
    ELSE default

\* the observations an environment with this observation space may return:
\* the vectors of raw entries within its bounds
Observations(space) ==
    { o \in [1..np_prod(space.shape) -> RawEntries] :
        \A i \in DOMAIN o : ~Gt(space.low[i], o[i]) /\ ~Gt(o[i], space.high[i]) }

\* ------------------------------------------------ base_env value types
\* a piece of an exception message: literal text or a formatted shape
Text(s) == [s |-> s, t |-> << >>]

Shape(t) == [s |-> "", t |-> t]

NoException == [type |-> "none", msg |-> << >>]

AssertionError == [type |-> "AssertionError", msg |-> << >>]

UnityActionException(msg) == [type |-> "UnityActionException", msg |-> msg]

UnityObservationException(msg) == [type |-> "UnityObservationException", msg |-> msg]

BehaviorSpec(observation_shapes, action_type, action_shape) ==
    [observation_shapes |-> observation_shapes,
     action_type        |-> action_type,
     action_shape       |-> action_shape]

is_action_continuous(spec) == spec.action_type = "CONTINUOUS"

\* the dimension of the action: the number of continuous actions, or the
\* number of discrete branches
action_size(spec) ==
    IF spec.action_type = "DISCRETE" THEN Len(spec.action_shape) ELSE spec.action_shape

\* one-agent batches; every field has one entry per agent
DecisionSteps(obs, reward, agent_id, action_mask) ==
    [obs |-> obs, reward |-> reward, agent_id |-> agent_id, action_mask |-> action_mask]

TerminalSteps(obs, reward, interrupted, agent_id) ==
    [obs |-> obs, reward |-> reward, interrupted |-> interrupted, agent_id |-> agent_id]

DecisionStepsEmpty(spec) ==
    DecisionSteps([i \in DOMAIN spec.observation_shapes |-> << >>], << >>, << >>, "None")

TerminalStepsEmpty(spec) ==
    TerminalSteps([i \in DOMAIN spec.observation_shapes |-> << >>], << >>, << >>, << >>)

\* len(steps): the number of agents in the batch
BatchLen(steps) == Len(steps.agent_id)

\* ------------------------------------------------------------- constants
DEFAULT_BEHAVIOR_NAME == "gym_behavior_name"

AGENT_ID == 1

\* ---------------------------------------------------- the adapter object
\* values of _g_action: None, a python int, or a float vector
NoneAction == [kind |-> "None", v |-> << >>]

IntAction(i) == [kind |-> "int", v |-> <<Num(i)>>]

ArrayAction(v) == [kind |-> "ndarray", v |-> v]

\* what a call on the wrapped environment returned: reset() returns only obs,
\* close() returns nothing
NoReturn == [obs |-> << >>, rew |-> Num(0), done |-> FALSE, info |-> {}]

\* a call made on the wrapped environment, with its argument and its result
EnvCall(fn, arg, ret) == [fn |-> fn, arg |-> arg, ret |-> ret]

\* the outcome of a call that raises: nothing assigned, nothing returned
Raise(self, exc) == [self |-> self, exc |-> exc, calls |-> << >>, ret |-> << >>]

\* the outcome of a call that returns None after assigning the fields of self
Return(self) == [self |-> self, exc |-> NoException, calls |-> << >>, ret |-> << >>]

\* fields the constructor has not assigned when it raises
Unset == [first_message  |-> TRUE,
          behavior_name  |-> "",
          act_ratio      |-> << >>,
          obs_ratio      |-> << >>,
          behavior_specs |-> BehaviorSpec(<< >>, "CONTINUOUS", 0),
          g_action       |-> NoneAction,
          current_steps  |-> <<DecisionStepsEmpty(BehaviorSpec(<< >>, "CONTINUOUS", 0)),
                               TerminalStepsEmpty(BehaviorSpec(<< >>, "CONTINUOUS", 0))>>]

\* the instance once the constructor has assigned the flag and the name
InitNamed(name) ==
    [Unset EXCEPT !.first_message = TRUE,
                  !.behavior_name = IF name = "" THEN DEFAULT_BEHAVIOR_NAME ELSE name]

\* the constructor raising on the action space, on the observation space
InitActionFailure(env, s) ==
    Raise(s, UnityActionException(
                <<Text("Unknown action type "), Text(env.action_space.kind)>>))

InitObservationFailure(env, s) ==
    Raise(s, UnityObservationException(
                <<Text("Unknown observation type "), Text(env.observation_space.kind)>>))

\* the Behavior Spec of a supported action space, given the shape of a Box
InitSpec(env, box_shape) ==
    IF env.action_space.kind = "Box"
    THEN BehaviorSpec(<<env.observation_space.shape>>, "CONTINUOUS", box_shape)
    ELSE BehaviorSpec(<<env.observation_space.shape>>, "DISCRETE", <<env.action_space.n>>)

\* the constructor returning, for supported spaces
InitBuilt(env, s, spec) ==
    Return([s EXCEPT
              !.act_ratio = IF env.action_space.kind = "Box"
                            THEN SpaceRatio(env.action_space) ELSE @,
              !.obs_ratio = SpaceRatio(env.observation_space),
              !.behavior_specs = spec,
              !.g_action = NoneAction,
              !.current_steps = <<DecisionStepsEmpty(spec), TerminalStepsEmpty(spec)>>])

\* __init__ that inspects the observation space before the action space
init_obs_first(env, name) ==
    IF env.observation_space.kind # "Box"
    THEN InitObservationFailure(env, InitNamed(name))
    ELSE IF env.action_space.kind \notin {"Box", "Discrete"}
    THEN InitActionFailure(env, InitNamed(name))
    ELSE InitBuilt(env, InitNamed(name), InitSpec(env, np_prod(env.action_space.shape)))

\* __init__ that takes the number of dimensions of a Box for its action shape
init_len_shape(env, name) ==
    IF env.action_space.kind \notin {"Box", "Discrete"}
    THEN InitActionFailure(env, InitNamed(name))
    ELSE IF env.observation_space.kind # "Box"
    THEN InitObservationFailure(env, InitNamed(name))
    ELSE InitBuilt(env, InitNamed(name), InitSpec(env, Len(env.action_space.shape)))

\* __init__ that starts with the first-message flag lowered
init_not_first(env, name) ==
    IF env.action_space.kind \notin {"Box", "Discrete"}
    THEN InitActionFailure(env, InitNamed(name))
    ELSE IF env.observation_space.kind # "Box"
    THEN InitObservationFailure(env, InitNamed(name))
    ELSE InitBuilt(env, [InitNamed(name) EXCEPT !.first_message = FALSE],
                   InitSpec(env, np_prod(env.action_space.shape)))

\* __init__(gym_env, name); name = "" stands for None
init(env, name) ==
    LET s1 == [Unset EXCEPT !.first_message = TRUE,
                            !.behavior_name = IF name = "" THEN DEFAULT_BEHAVIOR_NAME
                                              ELSE name]
        isBox      == env.action_space.kind = "Box"
        isDiscrete == env.action_space.kind = "Discrete"
        action_type  == IF isDiscrete THEN "DISCRETE" ELSE "CONTINUOUS"
        s2 == IF isBox
              THEN [s1 EXCEPT !.act_ratio = SpaceRatio(env.action_space)]
              ELSE s1
        spec == IF isBox
                THEN BehaviorSpec(<<env.observation_space.shape>>, action_type,
                                  np_prod(env.action_space.shape))
                ELSE BehaviorSpec(<<env.observation_space.shape>>, action_type,
                                  <<env.action_space.n>>)
    IN  IF ~isBox /\ ~isDiscrete
        THEN [self |-> s1,
              exc  |-> UnityActionException(
                          <<Text("Unknown action type "), Text(env.action_space.kind)>>),
              calls |-> << >>,
              ret  |-> << >>]
        ELSE IF env.observation_space.kind # "Box"
        THEN [self |-> s2,
              exc  |-> UnityObservationException(
                          <<Text("Unknown observation type "),
                            Text(env.observation_space.kind)>>),
              calls |-> << >>,
              ret  |-> << >>]
        ELSE [self |-> [s2 EXCEPT
                          !.obs_ratio = SpaceRatio(env.observation_space),
                          !.behavior_specs = spec,
                          !.g_action = NoneAction,
                          !.current_steps = <<DecisionStepsEmpty(spec),
                                              TerminalStepsEmpty(spec)>>],
              exc  |-> NoException,
              calls |-> << >>,
              ret  |-> << >>]

\* the behavior_specs property: {behavior_name: behavior_specs}
behavior_specs(self) ==
    [self |-> self,
     exc  |-> NoException,
     calls |-> << >>,
     ret  |-> << <<self.behavior_name, self.behavior_specs>> >>]

\* reset() that stores the raw observation
reset_raw_obs(self, env) ==
    [self |-> [self EXCEPT
                 !.first_message = FALSE,
                 !.current_steps =
                    <<DecisionSteps(<< <<env.reset>> >>, <<Num(0)>>, <<AGENT_ID>>, "None"),
                      TerminalStepsEmpty(self.behavior_specs)>>],
     exc  |-> NoException,
     calls |-> <<EnvCall("reset", NoneAction, [NoReturn EXCEPT !.obs = env.reset])>>,
     ret  |-> << >>]

\* reset() that does not lower the first-message flag
reset_keeps_flag(self, env) ==
    [self |-> [self EXCEPT
                 !.current_steps =
                    <<DecisionSteps(<< <<np_divide(env.reset, self.obs_ratio)>> >>,
                                    <<Num(0)>>, <<AGENT_ID>>, "None"),
                      TerminalStepsEmpty(self.behavior_specs)>>],
     exc  |-> NoException,
     calls |-> <<EnvCall("reset", NoneAction, [NoReturn EXCEPT !.obs = env.reset])>>,
     ret  |-> << >>]

\* reset(); env.reset is the observation the environment's reset() returns
reset(self, env) ==
    LET obs == env.reset
    IN  [self |-> [self EXCEPT
                     !.first_message = FALSE,
                     !.current_steps =
                        <<DecisionSteps(<< <<np_divide(obs, self.obs_ratio)>> >>,
                                        <<Num(0)>>, <<AGENT_ID>>, "None"),
                          TerminalStepsEmpty(self.behavior_specs)>>],
         exc  |-> NoException,
         calls |-> <<EnvCall("reset", NoneAction, [NoReturn EXCEPT !.obs = obs])>>,
         ret  |-> << >>]

\* the pair step() builds when the episode goes on
StepDecision(self, env, rew) ==
    <<DecisionSteps(<< <<np_divide(env.step.obs, self.obs_ratio)>> >>,
                    <<rew>>, <<AGENT_ID>>, "None"),
      TerminalStepsEmpty(self.behavior_specs)>>

\* the pair step() builds when the episode is over
StepTerminal(self, env, decision) ==
    <<decision,
      TerminalSteps(<< <<np_divide(env.step.obs, self.obs_ratio)>> >>,
                    <<env.step.rew>>,
                    <<InfoGet(env.step.info, "TimeLimit.truncated", FALSE)>>,
                    <<AGENT_ID>>)>>

\* step() returns None after its calls on the environment
StepResult(self, env, calls) ==
    [self |-> self, exc |-> NoException, calls |-> calls, ret |-> << >>]

\* step() whose terminal branch keeps the previous Decision Batch
step_keeps_decision(self, env) ==
    IF self.first_message THEN reset(self, env)
    ELSE StepResult(
           IF ~env.step.done
           THEN [self EXCEPT !.current_steps = StepDecision(self, env, env.step.rew)]
           ELSE [self EXCEPT !.first_message = TRUE,
                             !.current_steps =
                                StepTerminal(self, env, self.current_steps[1])],
           env, <<EnvCall("step", self.g_action, env.step)>>)

\* step() whose first-message branch does not return after reset()
step_falls_through(self, env) ==
    LET s0 == IF self.first_message THEN reset(self, env).self ELSE self
        c0 == IF self.first_message THEN reset(self, env).calls ELSE << >>
    IN  StepResult(
           IF ~env.step.done
           THEN [s0 EXCEPT !.current_steps = StepDecision(s0, env, env.step.rew)]
           ELSE [s0 EXCEPT !.first_message = TRUE,
                           !.current_steps =
                              StepTerminal(s0, env, DecisionStepsEmpty(s0.behavior_specs))],
           env, c0 \o <<EnvCall("step", s0.g_action, env.step)>>)

\* step() whose terminal branch does not raise the first-message flag
step_stays_running(self, env) ==
    IF self.first_message THEN reset(self, env)
    ELSE StepResult(
           IF ~env.step.done
           THEN [self EXCEPT !.current_steps = StepDecision(self, env, env.step.rew)]
           ELSE [self EXCEPT !.current_steps =
                                StepTerminal(self, env,
                                             DecisionStepsEmpty(self.behavior_specs))],
           env, <<EnvCall("step", self.g_action, env.step)>>)

\* step() whose decision branch reports reward 0, as reset() does
step_zero_reward(self, env) ==
    IF self.first_message THEN reset(self, env)
    ELSE StepResult(
           IF ~env.step.done
           THEN [self EXCEPT !.current_steps = StepDecision(self, env, Num(0))]
           ELSE [self EXCEPT !.first_message = TRUE,
                             !.current_steps =
                                StepTerminal(self, env,
                                             DecisionStepsEmpty(self.behavior_specs))],
           env, <<EnvCall("step", self.g_action, env.step)>>)

\* step() that clears the Pending Action once it has applied it
step_consumes_action(self, env) ==
    IF self.first_message THEN reset(self, env)
    ELSE StepResult(
           IF ~env.step.done
           THEN [self EXCEPT !.g_action = NoneAction,
                             !.current_steps = StepDecision(self, env, env.step.rew)]
           ELSE [self EXCEPT !.g_action = NoneAction,
                             !.first_message = TRUE,
                             !.current_steps =
                                StepTerminal(self, env,
                                             DecisionStepsEmpty(self.behavior_specs))],
           env, <<EnvCall("step", self.g_action, env.step)>>)

\* step(); env.step is the (obs, rew, done, info) the environment's step() returns
step(self, env) ==
    IF self.first_message THEN reset(self, env)
    ELSE StepResult(
           IF ~env.step.done
           THEN [self EXCEPT !.current_steps = StepDecision(self, env, env.step.rew)]
           ELSE [self EXCEPT !.first_message = TRUE,
                             !.current_steps =
                                StepTerminal(self, env,
                                             DecisionStepsEmpty(self.behavior_specs))],
           env, <<EnvCall("step", self.g_action, env.step)>>)

\* close() that leaves the environment open
close_keeps_env(self) == [self |-> self, exc |-> NoException, calls |-> << >>, ret |-> << >>]

\* close()
close(self) ==
    [self  |-> self,
     exc   |-> NoException,
     calls |-> <<EnvCall("close", NoneAction, NoReturn)>>,
     ret   |-> << >>]

\* the shape error of set_actions
ShapeError(behavior_name, expected_shape, shape) ==
    UnityActionException(
        <<Text("The behavior "), Text(behavior_name),
          Text(" needs an input of dimension "), Shape(expected_shape),
          Text(" but received input of dimension "), Shape(shape)>>)

\* the value set_actions stores for an action of the expected shape
StoredBatch(self, env, action) ==
    LET coerced == astype(action, IF is_action_continuous(self.behavior_specs)
                                  THEN "float32" ELSE "int32")
    IN  IF env.action_space.kind = "Discrete"
        THEN IntAction(Trunc(coerced.data[1]))
        ELSE ArrayAction(np_divide(FirstRow(coerced), self.act_ratio))

\* set_actions that stores the first entry before it validates the shape
set_actions_stores_first(self, env, behavior_name, action) ==
    LET n_agents       == BatchLen(self.current_steps[1])
        expected_shape == <<n_agents, action_size(self.behavior_specs)>>
        stored         == [self EXCEPT !.g_action = IntAction(Trunc(action.data[1]))]
    IN  IF behavior_name # self.behavior_name THEN Raise(self, AssertionError)
        ELSE IF n_agents = 0 THEN Return(self)
        ELSE IF action.shape # expected_shape
        THEN Raise(stored, ShapeError(behavior_name, expected_shape, action.shape))
        ELSE Return([self EXCEPT !.g_action = StoredBatch(self, env, action)])

\* set_actions without the early return for an empty Decision Batch
set_actions_no_empty_check(self, env, behavior_name, action) ==
    LET n_agents       == BatchLen(self.current_steps[1])
        expected_shape == <<n_agents, action_size(self.behavior_specs)>>
    IN  IF behavior_name # self.behavior_name THEN Raise(self, AssertionError)
        ELSE IF action.shape # expected_shape
        THEN Raise(self, ShapeError(behavior_name, expected_shape, action.shape))
        ELSE Return([self EXCEPT !.g_action = StoredBatch(self, env, action)])

\* set_actions that validates the action size but not the number of rows
set_actions_any_rows(self, env, behavior_name, action) ==
    LET n_agents       == BatchLen(self.current_steps[1])
        expected_shape == <<n_agents, action_size(self.behavior_specs)>>
    IN  IF behavior_name # self.behavior_name THEN Raise(self, AssertionError)
        ELSE IF n_agents = 0 THEN Return(self)
        ELSE IF Len(action.shape) # 2 \/ action.shape[2] # expected_shape[2]
        THEN Raise(self, ShapeError(behavior_name, expected_shape, action.shape))
        ELSE Return([self EXCEPT !.g_action = StoredBatch(self, env, action)])

\* set_actions that returns for an empty Decision Batch before it checks the name
set_actions_name_unchecked(self, env, behavior_name, action) ==
    LET n_agents       == BatchLen(self.current_steps[1])
        expected_shape == <<n_agents, action_size(self.behavior_specs)>>
    IN  IF n_agents = 0 THEN Return(self)
        ELSE IF behavior_name # self.behavior_name THEN Raise(self, AssertionError)
        ELSE IF action.shape # expected_shape
        THEN Raise(self, ShapeError(behavior_name, expected_shape, action.shape))
        ELSE Return([self EXCEPT !.g_action = StoredBatch(self, env, action)])

\* set_actions that multiplies a continuous action by the ratio
set_actions_multiplies(self, env, behavior_name, action) ==
    LET n_agents       == BatchLen(self.current_steps[1])
        expected_shape == <<n_agents, action_size(self.behavior_specs)>>
        coerced == astype(action, IF is_action_continuous(self.behavior_specs)
                                  THEN "float32" ELSE "int32")
    IN  IF behavior_name # self.behavior_name THEN Raise(self, AssertionError)
        ELSE IF n_agents = 0 THEN Return(self)
        ELSE IF action.shape # expected_shape
        THEN Raise(self, ShapeError(behavior_name, expected_shape, action.shape))
        ELSE IF env.action_space.kind = "Discrete"
        THEN Return([self EXCEPT !.g_action = IntAction(Trunc(coerced.data[1]))])
        ELSE Return([self EXCEPT
                       !.g_action =
                          ArrayAction([i \in DOMAIN self.act_ratio |->
                                         Rat(coerced.data[i].n * self.act_ratio[i].n,
                                             coerced.data[i].d * self.act_ratio[i].d)])])

\* set_actions(behavior_name, action)
set_actions(self, env, behavior_name, action) ==
    LET spec           == self.behavior_specs
        expected_type  == IF is_action_continuous(spec) THEN "float32" ELSE "int32"
        n_agents       == BatchLen(self.current_steps[1])
        expected_shape == <<n_agents, action_size(spec)>>
        coerced        == astype(action, expected_type)
    IN  IF behavior_name # self.behavior_name THEN Raise(self, AssertionError)
        ELSE IF n_agents = 0 THEN Return(self)
        ELSE IF action.shape # expected_shape
        THEN Raise(self, ShapeError(behavior_name, expected_shape, action.shape))
        ELSE IF env.action_space.kind = "Discrete"
        THEN Return([self EXCEPT !.g_action = IntAction(Trunc(coerced.data[1]))])
        ELSE IF env.action_space.kind = "Box"
        THEN Return([self EXCEPT
                       !.g_action = ArrayAction(np_divide(FirstRow(coerced),
                                                          self.act_ratio))])
        ELSE Raise(self, UnityActionException(
                 <<Text("Unknown action type "), Text(env.action_space.kind)>>))

\* set_action_for_agent that treats a discrete action like a continuous one
set_action_for_agent_as_array(self, env, behavior_name, agent_id, action) ==
    LET expected_shape == <<action_size(self.behavior_specs)>>
        coerced == astype(action, IF is_action_continuous(self.behavior_specs)
                                  THEN "float32" ELSE "int32")
    IN  IF behavior_name # self.behavior_name THEN Raise(self, AssertionError)
        ELSE IF agent_id # AGENT_ID THEN Raise(self, AssertionError)
        ELSE IF action.shape # expected_shape
        THEN Raise(self, UnityActionException(
                 <<Text("The Agent 0 with BehaviorName 1 needs an input of dimension "),
                   Text("2 but received input of dimension 3")>>))
        ELSE IF env.action_space.kind = "Discrete"
        THEN Return([self EXCEPT !.g_action = ArrayAction(coerced.data)])
        ELSE Return([self EXCEPT
                       !.g_action = ArrayAction(np_divide(coerced.data, self.act_ratio))])

\* set_action_for_agent(behavior_name, agent_id, action).  The message of the
\* shape error is an f-string whose placeholders {0}..{3} are evaluated as the
\* literals 0..3 before format() runs, so it carries none of the arguments.
set_action_for_agent(self, env, behavior_name, agent_id, action) ==
    LET spec           == self.behavior_specs
        expected_shape == <<action_size(spec)>>
        expected_type  == IF is_action_continuous(spec) THEN "float32" ELSE "int32"
        coerced        == astype(action, expected_type)
    IN  IF behavior_name # self.behavior_name THEN Raise(self, AssertionError)
        ELSE IF agent_id # AGENT_ID THEN Raise(self, AssertionError)
        ELSE IF action.shape # expected_shape
        THEN Raise(self, UnityActionException(
                 <<Text("The Agent 0 with BehaviorName 1 needs an input of dimension "),
                   Text("2 but received input of dimension 3")>>))
        ELSE IF env.action_space.kind = "Discrete"
        THEN Return([self EXCEPT !.g_action = IntAction(Trunc(coerced.data[1]))])
        ELSE IF env.action_space.kind = "Box"
        THEN Return([self EXCEPT
                       !.g_action = ArrayAction(np_divide(coerced.data, self.act_ratio))])
        ELSE Raise(self, UnityActionException(
                 <<Text("Unknown action type "), Text(env.action_space.kind)>>))

\* get_steps that hands the pair over and leaves two empty batches behind
get_steps_consumes(self, behavior_name) ==
    IF behavior_name # self.behavior_name THEN Raise(self, AssertionError)
    ELSE [self  |-> [self EXCEPT
                       !.current_steps = <<DecisionStepsEmpty(self.behavior_specs),
                                           TerminalStepsEmpty(self.behavior_specs)>>],
          exc   |-> NoException,
          calls |-> << >>,
          ret   |-> self.current_steps]

\* get_steps(behavior_name)
get_steps(self, behavior_name) ==
    IF behavior_name # self.behavior_name THEN Raise(self, AssertionError)
    ELSE [self  |-> self,
          exc   |-> NoException,
          calls |-> << >>,
          ret   |-> self.current_steps]

\* ---------------------------------------------------------------- inputs
BehaviorNames == {DEFAULT_BEHAVIOR_NAME, "custom"}

AgentIds == {AGENT_ID, AGENT_ID + 1}

Dtypes == {"float32", "int32"}

\* the rows of c entries an array of this dtype may hold
Rows(c, dtype) ==
    IF dtype = "int32"
    THEN { [i \in 1..c |-> Num(2)] }
    ELSE { [i \in 1..c |-> IF i % 2 = 1 THEN Num(1) ELSE Rat(5, 2)],
           [i \in 1..c |-> IF i % 2 = 1 THEN Rat(5, 2) ELSE Num(1)] }

ActionShapes ==
    {<<c>> : c \in 1..MaxCols} \cup {<<r, c>> : r \in 1..MaxRows, c \in 1..MaxCols}

\* the arrays a caller may submit: every row of a batch holds the same entries
ActionArrays ==
    UNION { { [shape |-> sh, dtype |-> dt,
               data  |-> [i \in 1..np_prod(sh) |-> row[((i - 1) % sh[Len(sh)]) + 1]]] :
                row \in Rows(sh[Len(sh)], dt) } :
            sh \in ActionShapes, dt \in Dtypes }

\* the constructions tried: every pair of spaces under the default name, and
\* one pair under a caller-chosen name (the name is only ever compared)
Constructions ==
    (ActionSpaces \X ObservationSpaces \X {""})
        \cup {<<Box(<<Num(-2)>>, <<Num(2)>>), Box(<<Num(-10)>>, <<Num(4)>>), "custom">>}

\* the (obs, rew, done, info) tuples the environment's step() may return
StepReturns(space) ==
    { [obs |-> o, rew |-> r, done |-> d, info |-> i] :
        o \in Observations(space), r \in Rewards, d \in BOOLEAN, i \in Infos }

\* ----------------------------------------------------------------- state
VARIABLES
    self,             \* the fields of the GymToUnityWrapper instance
    gym_env,          \* the wrapped environment: spaces, episode phase, close() count
    last,             \* the most recent call on the adapter and its outcome
    started,          \* a reset() or step() has completed
    accepted_action   \* the value stored by the latest submission that was accepted

vars == <<self, gym_env, last, started, accepted_action>>

\* the environment as a call sees it: its spaces and what it answers
Env(g, reset_obs, step_ret) ==
    [action_space      |-> g.action_space,
     observation_space |-> g.observation_space,
     reset             |-> reset_obs,
     step              |-> step_ret]

RECURSIVE EnvAfter(_, _)
\* the environment after the calls made on it
EnvAfter(g, calls) ==
    IF calls = << >> THEN g
    ELSE LET c == Head(calls)
             g1 == IF c.fn = "reset" THEN [g EXCEPT !.phase = "running"]
                   ELSE IF c.fn = "step"
                   THEN [g EXCEPT !.phase = IF c.ret.done THEN "done" ELSE "running"]
                   ELSE [g EXCEPT !.close_calls = @ + 1]
         IN  EnvAfter(g1, Tail(calls))

\* the record of a call: what it was, the adapter's phase when it was made,
\* and its outcome (exception, calls on the environment, return value)
Last(op, before, r) ==
    [op     |-> op,
     before |-> [first_message |-> before.first_message,
                 agents        |-> BatchLen(before.current_steps[1]),
                 terminals     |-> BatchLen(before.current_steps[2])],
     exc    |-> r.exc,
     calls  |-> r.calls,
     ret    |-> r.ret]

\* the constructor did not raise, so there is an adapter to call
Constructed == ~(last.op = "__init__" /\ last.exc.type # "none")

Init ==
    \E c \in Constructions :
        LET g == [action_space |-> c[1], observation_space |-> c[2],
                  phase |-> "new", close_calls |-> 0]
            r == init(g, c[3])
        IN  /\ gym_env = g
            /\ self = r.self
            /\ last = Last("__init__", Unset, r)
            /\ started = FALSE
            /\ accepted_action = NoneAction

\* a call on the adapter with outcome r
Call(op, r) ==
    /\ self' = r.self
    /\ gym_env' = EnvAfter(gym_env, r.calls)
    /\ last' = Last(op, self, r)

AnyObs == CHOOSE o \in Observations(gym_env.observation_space) : TRUE

AnyStepReturn == CHOOSE t \in StepReturns(gym_env.observation_space) : TRUE

Reset ==
    /\ Constructed
    /\ \E o \in Observations(gym_env.observation_space) :
           Call("reset", reset(self, Env(gym_env, o, AnyStepReturn)))
    /\ started' = TRUE
    /\ UNCHANGED accepted_action

Step ==
    /\ Constructed
    /\ IF self.first_message
       THEN \E o \in Observations(gym_env.observation_space) :
                Call("step", step(self, Env(gym_env, o, AnyStepReturn)))
       ELSE \E t \in StepReturns(gym_env.observation_space) :
                Call("step", step(self, Env(gym_env, AnyObs, t)))
    /\ started' = TRUE
    /\ UNCHANGED accepted_action

Close ==
    /\ Constructed
    /\ gym_env.close_calls < MaxClose
    /\ Call("close", close(self))
    /\ UNCHANGED <<started, accepted_action>>

SetActions ==
    /\ Constructed
    /\ \E name \in BehaviorNames, action \in ActionArrays :
           LET r == set_actions(self, Env(gym_env, AnyObs, AnyStepReturn), name, action)
           IN  /\ Call("set_actions", r)
               /\ accepted_action' =
                     IF r.exc.type = "none" /\ BatchLen(self.current_steps[1]) > 0
                     THEN r.self.g_action
                     ELSE accepted_action
    /\ UNCHANGED started

SetActionForAgent ==
    /\ Constructed
    /\ \E name \in BehaviorNames, agent_id \in AgentIds, action \in ActionArrays :
           LET r == set_action_for_agent(self, Env(gym_env, AnyObs, AnyStepReturn),
                                         name, agent_id, action)
           IN  /\ Call("set_action_for_agent", r)
               /\ accepted_action' =
                     IF r.exc.type = "none" THEN r.self.g_action ELSE accepted_action
    /\ UNCHANGED started

GetSteps ==
    /\ Constructed
    /\ \E name \in BehaviorNames : Call("get_steps", get_steps(self, name))
    /\ UNCHANGED <<started, accepted_action>>

BehaviorSpecs ==
    /\ Constructed
    /\ Call("behavior_specs", behavior_specs(self))
    /\ UNCHANGED <<started, accepted_action>>

Next ==
    \/ Reset
    \/ Step
    \/ Close
    \/ SetActions
    \/ SetActionForAgent
    \/ GetSteps
    \/ BehaviorSpecs

Spec == Init /\ [][Next]_vars

\* ------------------------------------------------------------ properties
Decision == self.current_steps[1]

Terminal == self.current_steps[2]

\* every field of the batch has one entry per agent
WellFormedDecision(d) ==
    /\ Len(d.reward) = Len(d.agent_id)
    /\ \A i \in DOMAIN d.obs : Len(d.obs[i]) = Len(d.agent_id)

WellFormedTerminal(t) ==
    /\ Len(t.reward) = Len(t.agent_id)
    /\ Len(t.interrupted) = Len(t.agent_id)
    /\ \A i \in DOMAIN t.obs : Len(t.obs[i]) = Len(t.agent_id)

\* C1: the Decision Batch and the Terminal Batch are never both non-empty;
\* both are empty exactly as long as no reset()/step() has run; afterwards
\* exactly one of them is non-empty and it holds exactly 1 agent.
C1_CurrentStepPair ==
    /\ WellFormedDecision(Decision) /\ WellFormedTerminal(Terminal)
    /\ ~(BatchLen(Decision) > 0 /\ BatchLen(Terminal) > 0)
    /\ (BatchLen(Decision) = 0 /\ BatchLen(Terminal) = 0) <=> ~started
    /\ started =>
          \/ BatchLen(Decision) = 1 /\ BatchLen(Terminal) = 0
          \/ BatchLen(Decision) = 0 /\ BatchLen(Terminal) = 1

\* a terminal step has replaced a Decision Batch by a Terminal Batch
C1_Witness ==
    /\ started
    /\ last.op = "step"
    /\ last.before.agents = 1
    /\ BatchLen(Terminal) = 1

\* the single call reset() makes on the environment, returning obs
IsResetCall(calls) ==
    /\ Len(calls) = 1
    /\ calls[1].fn = "reset"

\* the Current Step Pair of a new episode whose first raw observation is obs
InitialPair(obs) ==
    /\ BatchLen(Decision) = 1
    /\ Decision.obs = << <<[i \in DOMAIN obs |-> FDiv(obs[i], self.obs_ratio[i])]>> >>
    /\ Decision.reward = <<Num(0)>>
    /\ Decision.agent_id = <<AGENT_ID>>
    /\ Decision.action_mask = "None"
    /\ BatchLen(Terminal) = 0

\* C2: reset(), in whatever phase it is called, calls the environment's reset
\* exactly once, leaves the adapter RUNNING and produces a Decision Batch of 1
\* agent with the normalized initial observation and reward 0, and an empty
\* Terminal Batch.
C2_Reset ==
    last.op = "reset" =>
        /\ last.exc = NoException
        /\ IsResetCall(last.calls)
        /\ ~self.first_message
        /\ InitialPair(last.calls[1].ret.obs)

\* reset() has run right after a terminal step, on a space that is normalized
C2_Witness ==
    /\ last.op = "reset"
    /\ last.before.terminals = 1
    /\ self.obs_ratio # <<Num(1)>>

\* C3: step() in state FRESH does what reset() does from the same adapter and
\* the same environment: the same fields of self result and the same calls
\* are made on the environment (one reset, no step).
C3_StepFreshIsReset ==
    [][(last'.op = "step" /\ self.first_message) =>
          \E o \in Observations(gym_env.observation_space) :
              LET r == reset(self, Env(gym_env, o, AnyStepReturn))
              IN  /\ self' = r.self
                  /\ last'.calls = r.calls
                  /\ last'.exc = r.exc
                  /\ IsResetCall(last'.calls)
                  /\ gym_env' = EnvAfter(gym_env, r.calls)]_vars

\* step() has run in FRESH, right after a terminal step
C3_Witness ==
    /\ last.op = "step"
    /\ last.before.first_message
    /\ last.before.terminals = 1

\* the truncation flag an info dictionary supplies, false when it has none
Truncated(info) == <<"TimeLimit.truncated", TRUE>> \in info

\* C4: a RUNNING step() that receives done=True leaves the adapter FRESH with
\* an empty Decision Batch and a Terminal Batch of 1 agent carrying the
\* environment's reward and truncation flag; get_steps then returns that pair;
\* and the next step() calls the environment's reset, not its step, and does
\* not raise.
C4_TerminalStep ==
    /\ [][(last'.op = "step" /\ ~self.first_message /\ last'.calls[1].ret.done) =>
             /\ self'.first_message
             /\ BatchLen(self'.current_steps[1]) = 0
             /\ BatchLen(self'.current_steps[2]) = 1
             /\ self'.current_steps[2].reward = <<last'.calls[1].ret.rew>>
             /\ self'.current_steps[2].interrupted = <<Truncated(last'.calls[1].ret.info)>>
             /\ self'.current_steps[2].agent_id = <<AGENT_ID>>]_vars
    /\ [][(last'.op = "get_steps" /\ last'.exc = NoException /\ BatchLen(Terminal) = 1) =>
             /\ last'.ret = self.current_steps
             /\ BatchLen(last'.ret[1]) = 0
             /\ BatchLen(last'.ret[2]) = 1]_vars
    /\ [][(last'.op = "step" /\ BatchLen(Terminal) = 1) =>
             /\ last'.exc = NoException
             /\ IsResetCall(last'.calls)]_vars

\* a terminal step has been followed by a step() that reset the environment
C4_AfterTerminal ==
    /\ last.op = "step"
    /\ last.before.terminals = 1
    /\ last.calls[1].fn = "reset"

\* C5: a RUNNING step() that receives done=False leaves the adapter RUNNING
\* with a Decision Batch of 1 agent (the environment's reward, the fixed agent
\* id, no action mask) and an empty Terminal Batch.
C5_DecisionStep ==
    (/\ last.op = "step"
     /\ ~last.before.first_message
     /\ ~last.calls[1].ret.done) =>
        /\ ~self.first_message
        /\ BatchLen(Decision) = 1
        /\ Decision.reward = <<last.calls[1].ret.rew>>
        /\ Decision.agent_id = <<AGENT_ID>>
        /\ Decision.action_mask = "None"
        /\ Decision.obs = << <<[i \in DOMAIN self.obs_ratio |->
                                  FDiv(last.calls[1].ret.obs[i], self.obs_ratio[i])]>> >>
        /\ BatchLen(Terminal) = 0

\* a RUNNING step() has received done=False
C5_Witness ==
    /\ last.op = "step"
    /\ ~last.before.first_message
    /\ ~last.calls[1].ret.done
    /\ last.calls[1].fn = "step"

\* the environment as set_actions / set_action_for_agent see it in this state
CallEnv == Env(gym_env, AnyObs, AnyStepReturn)

\* C6: every RUNNING step() passes to the environment's step exactly the
\* Pending Action, which is the value stored by the latest submission that
\* was accepted; a rejected submission does not change the Pending Action.
C6_PendingAction ==
    /\ [](self.g_action = accepted_action)
    /\ []((last.op = "step" /\ ~last.before.first_message) =>
             /\ Len(last.calls) = 1
             /\ last.calls[1].fn = "step"
             /\ last.calls[1].arg = accepted_action)
    /\ [][(/\ last'.op \in {"set_actions", "set_action_for_agent"}
           /\ last'.exc # NoException) => self'.g_action = self.g_action]_vars

\* a RUNNING step() has applied a submitted action
C6_Witness ==
    /\ last.op = "step"
    /\ ~last.before.first_message
    /\ last.calls[1].arg # NoneAction

\* C7: set_actions under the adapter's behavior name, called while the
\* Decision Batch is empty, returns without raising and changes nothing,
\* whatever the value and the shape of the action.
C7_EmptyBatchNoOp ==
    (Constructed /\ BatchLen(Decision) = 0) =>
        \A a \in ActionArrays :
            set_actions(self, CallEnv, self.behavior_name, a) = Return(self)

\* set_actions has returned silently right after a terminal step
C7_Witness ==
    /\ last.op = "set_actions"
    /\ last.exc = NoException
    /\ last.before.agents = 0
    /\ last.before.terminals = 1

\* the shape set_actions expects while 1 agent awaits a decision
OneAgentShape == <<1, action_size(self.behavior_specs)>>

\* C8: while 1 agent awaits a decision, set_actions under the adapter's
\* behavior name raises UnityActionException for every action whose shape is
\* not (1, action_size); the message names the behavior, the expected shape
\* (1, action_size) and the received shape; the failed call changes nothing,
\* and a correctly shaped action submitted afterwards is stored.
C8_ShapeError ==
    (Constructed /\ BatchLen(Decision) = 1) =>
        \A a \in ActionArrays :
            a.shape # OneAgentShape =>
                LET r == set_actions(self, CallEnv, self.behavior_name, a)
                IN  /\ r.exc.type = "UnityActionException"
                    /\ r.exc.msg[2] = Text(self.behavior_name)
                    /\ r.exc.msg[4] = Shape(OneAgentShape)
                    /\ r.exc.msg[6] = Shape(a.shape)
                    /\ r.self = self
                    /\ r.calls = << >>
                    /\ \A b \in ActionArrays :
                          b.shape = OneAgentShape =>
                              LET r2 == set_actions(r.self, CallEnv, self.behavior_name, b)
                              IN  /\ r2.exc = NoException
                                  /\ r2.self.g_action # NoneAction

\* set_actions has rejected a batch of 2 rows while 1 agent awaited a decision
C8_Witness ==
    /\ last.op = "set_actions"
    /\ last.before.agents = 1
    /\ last.exc.type = "UnityActionException"
    /\ last.exc.msg[6] = Shape(<<2, action_size(self.behavior_specs)>>)

\* the batch of one row holding the vector a
AsBatch(a) == [shape |-> <<1>> \o a.shape, dtype |-> a.dtype, data |-> a.data]

\* C9: set_action_for_agent has the effect of set_actions on the Pending
\* Action: in every state, for every vector a of shape (action_size,), it
\* stores what set_actions stores for the batch whose one row is a; and every
\* action of another shape raises UnityActionException.
C9_SameContract ==
    Constructed =>
        \A a \in ActionArrays :
            LET r == set_action_for_agent(self, CallEnv, self.behavior_name, AGENT_ID, a)
            IN  IF a.shape = <<action_size(self.behavior_specs)>>
                THEN r.self.g_action =
                        set_actions(self, CallEnv, self.behavior_name, AsBatch(a)).self.g_action
                ELSE r.exc.type = "UnityActionException"

\* C10: a behavior name other than the adapter's makes set_actions,
\* set_action_for_agent and get_steps raise AssertionError, and an agent id
\* other than the adapter's makes set_action_for_agent raise it, in every
\* state and for every action; the failed call changes nothing.
C10_ContractViolation ==
    Constructed =>
        \A n \in BehaviorNames, id \in AgentIds, a \in ActionArrays :
            (n # self.behavior_name \/ id # AGENT_ID) =>
                /\ set_action_for_agent(self, CallEnv, n, id, a)
                      = Raise(self, AssertionError)
                /\ n # self.behavior_name =>
                      /\ set_actions(self, CallEnv, n, a) = Raise(self, AssertionError)
                      /\ get_steps(self, n) = Raise(self, AssertionError)

\* set_actions has raised AssertionError while the Decision Batch was empty
C10_Witness ==
    /\ last.op = "set_actions"
    /\ last.exc = AssertionError
    /\ last.before.agents = 0
\* C11: get_steps under the adapter's behavior name returns the Current Step
\* Pair, changes nothing and calls nothing on the environment; the pair
\* changes only in reset() and step(), so get_steps calls with submissions in
\* between return the same pair.
C11_GetStepsPureRead ==
    /\ [][(last'.op = "get_steps" /\ last'.exc = NoException) =>
             /\ last'.ret = self.current_steps
             /\ last'.calls = << >>
             /\ self' = self
             /\ gym_env' = gym_env]_vars
    /\ [][self'.current_steps # self.current_steps =>
             last'.op \in {"reset", "step"}]_vars
    /\ [](Constructed =>
             \A a \in ActionArrays, id \in AgentIds :
                 LET s1 == set_actions(self, CallEnv, self.behavior_name, a).self
                     s2 == set_action_for_agent(s1, CallEnv, self.behavior_name, id, a).self
                 IN  get_steps(s2, self.behavior_name).ret
                        = get_steps(self, self.behavior_name).ret)

\* get_steps has returned a pair whose Decision Batch holds the agent
C11_Witness ==
    /\ last.op = "get_steps"
    /\ last.exc = NoException
    /\ BatchLen(last.ret[1]) = 1
\* C12 as stated: over any sequence of adapter calls, repeated close()
\* included, the environment's close is invoked at most once.
C12_ReleasedOnce == gym_env.close_calls <= 1

\* C12, amended: the environment's close is invoked by close() only, and
\* exactly once by every call of close().
C12_ReleasedByClose ==
    [][/\ last'.op = "close" =>
             /\ gym_env'.close_calls = gym_env.close_calls + 1
             /\ last'.calls = <<EnvCall("close", NoneAction, NoReturn)>>
             /\ last'.exc = NoException
       /\ last'.op # "close" =>
             /\ gym_env'.close_calls = gym_env.close_calls
             /\ \A i \in DOMAIN last'.calls : last'.calls[i].fn # "close"]_vars

\* close() has been called a second time
C12_Witness ==
    /\ last.op = "close"
    /\ gym_env.close_calls = 2
SupportedActionSpace == gym_env.action_space.kind \in {"Box", "Discrete"}

SupportedObservationSpace == gym_env.observation_space.kind = "Box"

\* C13: the constructor raises UnityActionException for an unsupported action
\* space, whatever the observation space; raises UnityObservationException
\* for a supported action space with an observation space that is not a Box;
\* and otherwise returns without a call on the environment, leaving the
\* adapter FRESH with two empty batches and no Pending Action.
C13_Construction ==
    last.op = "__init__" =>
        /\ last.calls = << >>
        /\ gym_env.phase = "new"
        /\ gym_env.close_calls = 0
        /\ ~SupportedActionSpace => last.exc.type = "UnityActionException"
        /\ (SupportedActionSpace /\ ~SupportedObservationSpace) =>
              last.exc.type = "UnityObservationException"
        /\ (SupportedActionSpace /\ SupportedObservationSpace) =>
              /\ last.exc = NoException
              /\ self.first_message
              /\ BatchLen(Decision) = 0
              /\ BatchLen(Terminal) = 0
              /\ WellFormedDecision(Decision)
              /\ WellFormedTerminal(Terminal)
              /\ self.g_action = NoneAction

\* construction has failed on the action space although the observation
\* space is unsupported too
C13_Witness ==
    /\ last.op = "__init__"
    /\ ~SupportedActionSpace
    /\ ~SupportedObservationSpace
    /\ last.exc.type = "UnityActionException"
Category(a) == IF a.dtype = "int32" THEN a.data[1].n ELSE a.data[1].n \div a.data[1].d

RatioOf(space) ==
    [i \in DOMAIN space.high |->
        LET m == IF Gt(Neg(space.low[i]), space.high[i])
                 THEN Neg(space.low[i]) ELSE space.high[i]
        IN  IF m = Inf THEN Num(1) ELSE m]

\* the vector v divided entry by entry by the ratio
Scaled(v, ratio) == [i \in DOMAIN ratio |-> FDiv(v[i], ratio[i])]

\* C16: over a continuous action space the action ratio is RatioOf the space,
\* an accepted submission stores the submitted row divided entry by entry by
\* that ratio (bounds [-2, 2] give ratio [2], and [[1.0]] stores [0.5]), and a
\* RUNNING step() has passed the stored vector to the environment.
C16_ContinuousAction ==
    /\ (Constructed /\ gym_env.action_space.kind = "Box") =>
          /\ self.act_ratio = RatioOf(gym_env.action_space)
          /\ \A a \in ActionArrays :
                /\ (a.shape = OneAgentShape /\ BatchLen(Decision) = 1) =>
                      set_actions(self, CallEnv, self.behavior_name, a)
                         = Return([self EXCEPT !.g_action =
                                      ArrayAction(Scaled(a.data,
                                                         RatioOf(gym_env.action_space)))])
                /\ a.shape = <<action_size(self.behavior_specs)>> =>
                      set_action_for_agent(self, CallEnv, self.behavior_name, AGENT_ID, a)
                         = Return([self EXCEPT !.g_action =
                                      ArrayAction(Scaled(a.data,
                                                         RatioOf(gym_env.action_space)))])
    /\ (/\ Constructed
        /\ gym_env.action_space = Box(<<Num(-2)>>, <<Num(2)>>)
        /\ BatchLen(Decision) = 1) =>
          /\ self.act_ratio = <<Num(2)>>
          /\ set_actions(self, CallEnv, self.behavior_name,
                         [shape |-> <<1, 1>>, dtype |-> "float32", data |-> <<Num(1)>>])
                .self.g_action = ArrayAction(<<Rat(1, 2)>>)
    /\ (last.op = "step" /\ ~last.before.first_message) =>
          last.calls[1].arg = self.g_action

\* over bounds [-2, 2] a RUNNING step() has applied 0.5 to the environment
C16_Witness ==
    /\ gym_env.action_space = Box(<<Num(-2)>>, <<Num(2)>>)
    /\ last.op = "step"
    /\ ~last.before.first_message
    /\ last.calls[1].fn = "step"
    /\ last.calls[1].arg = ArrayAction(<<Rat(1, 2)>>)
\* x * y on floats: inf * 0 is nan
FMul(x, y) == Rat(x.n * y.n, x.d * y.d)

\* the raw observation the latest reset()/step() received from the environment
LastRawObs == last.calls[Len(last.calls)].ret.obs

\* the observation row of the batch the latest reset()/step() produced
DeliveredObs ==
    IF BatchLen(Decision) = 1 THEN Decision.obs[1][1] ELSE Terminal.obs[1][1]

\* the entry i of the observation ratio is clamped to 1
Clamped(i) ==
    LET space == gym_env.observation_space
    IN  space.high[i] = Inf \/ space.low[i] = Neg(Inf)

\* C17: the observation reset() and step() deliver is the raw observation
\* divided entry by entry by the observation ratio, so that multiplying a
\* delivered entry by its ratio entry gives back the raw entry wherever the
\* ratio is not clamped, and clamped entries are delivered as received.
C17_RoundTrip ==
    (last.op \in {"reset", "step"}) =>
        /\ self.obs_ratio = RatioOf(gym_env.observation_space)
        /\ DeliveredObs = Scaled(LastRawObs, self.obs_ratio)
        /\ \A i \in DOMAIN LastRawObs :
              IF Clamped(i)
              THEN DeliveredObs[i] = LastRawObs[i]
              ELSE FMul(DeliveredObs[i], self.obs_ratio[i]) = LastRawObs[i]
\* the calls of the given name among the calls made on the environment
CallsOf(calls, fn) == {i \in DOMAIN calls : calls[i].fn = fn}

\* C18: the adapter calls the environment's step only while an episode is
\* running there (after a reset, and not after a done without a reset in
\* between), and calls the environment's reset exactly once in reset() and in
\* a step() made in state FRESH, and nowhere else.
C18_CallProtocol ==
    [][/\ \A i \in CallsOf(last'.calls, "step") :
             EnvAfter(gym_env, SubSeq(last'.calls, 1, i - 1)).phase = "running"
       /\ Cardinality(CallsOf(last'.calls, "reset")) =
             IF last'.op = "reset" \/ (last'.op = "step" /\ self.first_message)
             THEN 1 ELSE 0]_vars

\* the environment has reported done to a RUNNING step()
C18_Witness ==
    /\ last.op = "step"
    /\ last.calls[1].fn = "step"
    /\ last.calls[1].ret.done
    /\ gym_env.phase = "done"
\* C19: the adapter is FRESH exactly when the Decision Batch is empty; hence
\* set_actions is a no-op for every action exactly in the states in which the
\* next step() resets the environment instead of applying an action.
C19_FlagMatchesBatch ==
    Constructed =>
        /\ self.first_message <=> BatchLen(Decision) = 0
        /\ (\A a \in ActionArrays :
               set_actions(self, CallEnv, self.behavior_name, a) = Return(self))
              <=> IsResetCall(step(self, CallEnv).calls)

\* a submission for the agent was made while the adapter was FRESH after a
\* terminal step
C19_Witness ==
    /\ self.first_message
    /\ BatchLen(Terminal) = 1
    /\ last.op = "set_action_for_agent"
    /\ last.exc = NoException
\* C20: step() and reset() leave the Pending Action as it is, and it changes
\* only in a set_actions / set_action_for_agent call that does not raise; so a
\* RUNNING step() applies the Pending Action it finds, whenever it was
\* submitted, and applies None when nothing has ever been submitted.
C20_PendingActionPersists ==
    /\ [][last'.op \in {"step", "reset"} => self'.g_action = self.g_action]_vars
    /\ [][self'.g_action # self.g_action =>
             /\ last'.op \in {"set_actions", "set_action_for_agent"}
             /\ last'.exc = NoException]_vars
    /\ [][(last'.op = "step" /\ ~self.first_message) =>
             last'.calls = <<EnvCall("step", self.g_action, last'.calls[1].ret)>>]_vars
    /\ []((/\ last.op = "step"
           /\ ~last.before.first_message
           /\ accepted_action = NoneAction) => last.calls[1].arg = NoneAction)

\* a RUNNING step() has passed None to the environment
C20_Witness ==
    /\ last.op = "step"
    /\ ~last.before.first_message
    /\ last.calls[1].fn = "step"
    /\ last.calls[1].arg = NoneAction
====
